---- MODULE Spec2Model ----
(***************************************************************************)
(* Two dynamic memory allocators over one growable arena:                  *)
(*   - the implicit-list allocator (mm-implicit.c): headers only, first    *)
(*     fit in address order, coalescing sweep at the start of mm_malloc;   *)
(*   - the explicit-list allocator (mm-explicit.c): boundary tags, a       *)
(*     doubly linked free list kept in the free payloads, eager coalescing.*)
(* Memory is an array of 8-byte words.  Addresses are absolute byte        *)
(* addresses, HeapBase being the address of the first byte of the arena.   *)
(* A load or store through an address outside the arena ends the process   *)
(* (fault = "segv"); the memory written before that point is kept.         *)
(***************************************************************************)
EXTENDS Integers, Sequences, FiniteSets, TLC

VARIABLES strategy,        \* which of the two allocators is linked in
          inited,          \* mm_init has run
          mem,             \* the arena, word index -> value
          brk,             \* bytes handed out by mem_sbrk (high-water mark)
          mm_heap_first,   \* implicit: first block
          mm_heap_last,    \* implicit: last block
          first,           \* explicit: head sentinel of the free list
          last,            \* explicit: tail sentinel of the free list
          epilogue,        \* explicit: address of the epilogue header last written
          live,            \* client side: pointer -> [n, data] of the blocks it holds
          op,              \* the public operation that ran last
          nlayered,        \* calls of mm_realloc and mm_calloc made so far
          fault            \* "none", or how the process ended

vars == <<strategy, inited, mem, brk, mm_heap_first, mm_heap_last, first, last,
          epilogue, live, op, nlayered, fault>>

----------------------------------------------------------------------------
(* Bounds of the model *)

\* capacity of the arena in 8-byte words, when the implicit and when the
\* explicit allocator is linked in
MaxHeapWordsI == 9
MaxHeapWordsE == 20

\* the number of mm_realloc and mm_calloc calls of a run
MaxLayered == 1

\* sizes the client asks for
ReqSizes == {0, 16, 40}

\* arguments of mm_calloc
CallocCounts == {0, 2}
CallocSizes == {8}

----------------------------------------------------------------------------
(* Constants of the program *)

WORD == 8
ALIGNMENT == 2 * WORD
NULL == 0
\* (void *) -1, the failure result of mem_sbrk
SBRK_FAILED == 0 - 1
\* address of the first byte of the arena (a multiple of ALIGNMENT, far
\* above the capacity, as the address of a mapped region is)
HeapBase == 256 * ALIGNMENT
MaxHeapWords == IF strategy = "implicit" THEN MaxHeapWordsI ELSE MaxHeapWordsE
MaxHeap == MaxHeapWords * WORD
\* contents of an arena word nobody has written yet
Uninit == 0 - 1
\* the pattern a client writes into word w of a block it was given
Pattern(w) == 0 - (w + 2)

\* number of words holding n bytes
WordsOf(n) == (n + WORD - 1) \div WORD

----------------------------------------------------------------------------
(* Raw memory.  h is the working state of one operation: the allocator's   *)
(* globals, the arena, and what happened so far (h.fault, h.gf: a          *)
(* mem_sbrk call failed, h.ret: the value being returned).                 *)

AddrOK(a) == /\ a >= HeapBase
             /\ a < HeapBase + MaxHeap
             /\ (a - HeapBase) % WORD = 0

Idx(a) == (a - HeapBase) \div WORD

Crash(h, how) == IF h.fault = "none" THEN [h EXCEPT !.fault = how] ELSE h

\* the value read by *a
Load(h, a) == IF AddrOK(a) THEN h.mem[Idx(a)] ELSE 0

\* a read through a: the process ends when a is not an arena address
Touch(h, a) == IF AddrOK(a) THEN h ELSE Crash(h, "segv")

\* a read of a metadata word: a word that holds client data or was never
\* written has no defined meaning as metadata
Meta(h, a) ==
    IF ~AddrOK(a) THEN Crash(h, "segv")
    ELSE IF h.mem[Idx(a)] < 0 THEN Crash(h, "indet")
    ELSE h

\* *a = v
Store(h, a, v) ==
    IF h.fault # "none" THEN h
    ELSE IF AddrOK(a) THEN [h EXCEPT !.mem[Idx(a)] = v]
    ELSE Crash(h, "segv")

\* size | is_allocated
OrBit(size, is_allocated) ==
    IF is_allocated /\ size % 2 = 0 THEN size + 1 ELSE size

\* word & ~1
ClearLow(word) == word - (word % 2)

\* word & 1
LowBit(word) == word % 2 = 1

\* a faulty variant of round_up: the size is not rounded
round_up_none(size, n) == size

round_up(size, n) == ((size + (n - 1)) \div n) * n

\* memlib: extend the arena by incr bytes; the old high-water mark is
\* returned, or (void *) -1 when the capacity would be exceeded
mem_sbrk(h, incr) ==
    IF h.fault # "none" THEN h
    ELSE IF incr < 0 \/ h.brk + incr > MaxHeap
         THEN [h EXCEPT !.ret = SBRK_FAILED, !.gf = TRUE]
         ELSE [h EXCEPT !.ret = HeapBase + h.brk, !.brk = h.brk + incr]

\* memcpy(dst, src, n), word by word.  A read of the word right after the
\* arena is a read past the end of memlib's array: it ends the process
\* (ub) or yields garbage (~ub).
RECURSIVE memcpy(_, _, _, _, _)
memcpy(h, dst, src, n, ub) ==
    IF n <= 0 \/ h.fault # "none" THEN h
    ELSE LET past == src = HeapBase + MaxHeap /\ ~ub
             h1 == IF past THEN h ELSE Touch(h, src)
             h2 == Store(h1, dst, IF past THEN Uninit ELSE Load(h1, src))
         IN memcpy(h2, dst + WORD, src + WORD, n - WORD, ub)

\* memset(dst, 0, n), word by word
RECURSIVE memset0(_, _, _)
memset0(h, dst, n) ==
    IF n <= 0 \/ h.fault # "none" THEN h
    ELSE memset0(Store(h, dst, 0), dst + WORD, n - WORD)

----------------------------------------------------------------------------
(* The implicit-list allocator *)

I_set_header(h, block, size, is_allocated) ==
    Store(h, block, OrBit(size, is_allocated))

I_get_size(h, block) == ClearLow(Load(h, block))

I_is_allocated(h, block) == LowBit(Load(h, block))

I_block_from_payload(ptr) == ptr - WORD

RECURSIVE I_find_fit_loop(_, _, _, _)
I_find_fit_loop(h, curr, size, fuel) ==
    IF ~(h.hlast # NULL /\ curr <= h.hlast) THEN [h EXCEPT !.ret = NULL]
    ELSE IF fuel = 0 THEN Crash(h, "hang")
    ELSE
      LET block_size == I_get_size(h, curr)
          \* mm_heap_last follows the remainder when curr was the last block
          moved(h4) == IF curr = h4.hlast THEN [h4 EXCEPT !.hlast = curr + size]
                                          ELSE h4
          \* a remainder of at least 16 bytes becomes a free block
          split(h2) ==
              IF block_size - size >= 16
              THEN moved(I_set_header(h2, curr + size, block_size - size, FALSE))
              ELSE h2
          look(h1) ==
              IF h1.fault # "none" THEN h1
              ELSE IF ~I_is_allocated(h1, curr) /\ block_size >= size
              THEN [split(I_set_header(h1, curr, size, TRUE)) EXCEPT !.ret = curr]
              ELSE I_find_fit_loop(h1, curr + block_size, size, fuel - 1)
      IN look(Meta(h, curr))

I_find_fit(h, size) == I_find_fit_loop(h, h.hfirst, size, MaxHeapWords + 1)

I_mm_init(h) ==
    LET s == mem_sbrk(h, ALIGNMENT - WORD)
    IN IF s.ret = SBRK_FAILED THEN [s EXCEPT !.ret = 0]
       ELSE [s EXCEPT !.hfirst = NULL, !.hlast = NULL, !.ret = 1]

\* the inner loop of coalesce: the total size of the run of free blocks
\* that starts with a block of size total followed by next_block
RECURSIVE I_coalesce_run(_, _, _, _)
I_coalesce_run(h, next_block, total, fuel) ==
    IF fuel = 0 THEN [total |-> total, h |-> Crash(h, "hang")]
    ELSE IF ~(next_block <= h.hlast) THEN [total |-> total, h |-> h]
    ELSE
      LET \* next1 is the last block of the heap
          tail(h2, next1, total1) ==
              IF h2.fault = "none" /\ ~I_is_allocated(h2, next1)
              THEN [total |-> total1 + I_get_size(h2, next1), h |-> h2]
              ELSE [total |-> total1, h |-> h2]
          add(h1, next1, total1) ==
              IF next1 = h1.hlast THEN tail(Meta(h1, next1), next1, total1)
              ELSE I_coalesce_run(h1, next1, total1, fuel - 1)
          look(h1) ==
              IF h1.fault # "none" THEN [total |-> total, h |-> h1]
              ELSE IF I_is_allocated(h1, next_block)
              THEN [total |-> total, h |-> h1]
              ELSE add(h1, next_block + I_get_size(h1, next_block),
                       total + I_get_size(h1, next_block))
      IN look(Meta(h, next_block))

RECURSIVE I_coalesce_loop(_, _, _)
I_coalesce_loop(h, curr, fuel) ==
    IF ~(h.hlast # NULL /\ curr < h.hlast) \/ h.fault # "none" THEN h
    ELSE IF fuel = 0 THEN Crash(h, "hang")
    ELSE
      LET write(run) == I_set_header(run.h, curr, run.total, FALSE)
          merge(h1) ==
              IF h1.fault # "none" THEN h1
              ELSE IF ~I_is_allocated(h1, curr)
              THEN write(I_coalesce_run(h1, curr + I_get_size(h1, curr),
                                        I_get_size(h1, curr), MaxHeapWords + 1))
              ELSE h1
          step(h2) == I_coalesce_loop(h2, curr + I_get_size(h2, curr), fuel - 1)
      IN step(merge(Meta(h, curr)))

I_coalesce(h) == I_coalesce_loop(h, h.hfirst, MaxHeapWords + 1)

I_mm_malloc(h, n) ==
    LET size == round_up(WORD + n, ALIGNMENT)
        place(s, block) ==
            IF block = SBRK_FAILED THEN [s EXCEPT !.ret = NULL]
            ELSE [I_set_header(
                      [s EXCEPT !.hfirst = IF @ = NULL THEN block ELSE @,
                                !.hlast = block],
                      block, size, TRUE)
                    EXCEPT !.ret = block + WORD]
        grow(s) == place(s, s.ret)
        found(f) ==
            IF f.fault # "none" THEN f
            ELSE IF f.ret # NULL THEN [f EXCEPT !.ret = f.ret + WORD]
            ELSE grow(mem_sbrk(f, size))
    IN found(I_find_fit(I_coalesce(h), size))

I_mm_free(h, ptr) ==
    IF ptr = NULL THEN h
    ELSE LET block == I_block_from_payload(ptr)
             h1 == Touch(h, block)
         IN I_set_header(h1, block, I_get_size(h1, block), FALSE)

\* the number of bytes mm_realloc copies
I_smaller_size(h, old_ptr, size) ==
    LET old_size == I_get_size(h, I_block_from_payload(old_ptr))
    IN IF old_size > size THEN size ELSE old_size

\* ub: the outcome of a read past the end of the arena, see memcpy
I_mm_realloc(h, old_ptr, size, ub) ==
    IF old_ptr = NULL THEN I_mm_malloc(h, size)
    ELSE IF size = 0 THEN [I_mm_free(h, old_ptr) EXCEPT !.ret = NULL]
    ELSE
      LET copy(m1, new_ptr) ==
              [I_mm_free(memcpy(m1, new_ptr, old_ptr,
                                I_smaller_size(m1, old_ptr, size), ub),
                         old_ptr)
                 EXCEPT !.ret = new_ptr, !.inner = new_ptr]
          got(m) == copy(Touch(m, I_block_from_payload(old_ptr)), m.ret)
      IN got(I_mm_malloc(h, size))

I_mm_calloc(h, nmemb, size) ==
    LET zero(m, ptr) == [memset0(m, ptr, nmemb * size)
                           EXCEPT !.ret = ptr, !.inner = ptr]
        got(m) == zero(m, m.ret)
    IN got(I_mm_malloc(h, nmemb * size))

----------------------------------------------------------------------------
(* The explicit-list allocator.  A block_t starts with the footer of the   *)
(* block before it (offset 0), then its own header (offset 8), then the    *)
(* payload (offset 16).  A linked_node_t is prev (offset 0), next (8).     *)

\* a faulty variant of set_header_footer: the footer is written one ALIGNMENT too far
E_set_header_footer_far(h, block, payload_size, is_allocated) ==
    LET h1 == Store(h, block + WORD, OrBit(payload_size, is_allocated))
    IN Store(h1, block + ALIGNMENT + payload_size + ALIGNMENT,
             OrBit(payload_size, is_allocated))

E_set_header_footer(h, block, payload_size, is_allocated) ==
    LET h1 == Store(h, block + WORD, OrBit(payload_size, is_allocated))
    IN Store(h1, block + ALIGNMENT + payload_size,
             OrBit(payload_size, is_allocated))

E_get_size(h, block) == ClearLow(Load(h, block + WORD))

E_get_previous_size(h, block) == ClearLow(Load(h, block))

E_is_previous_allocated(h, block) == LowBit(Load(h, block))

E_is_next_allocated(h, block) ==
    LET header == Load(h, block + ALIGNMENT + E_get_size(h, block) + WORD)
    IN IF ClearLow(header) # 0 THEN LowBit(header) ELSE TRUE

\* the reads of is_next_allocated
E_next_header_read(h, block) ==
    LET h1 == Meta(h, block + WORD)
    IN IF h1.fault # "none" THEN h1
       ELSE Touch(h1, block + ALIGNMENT + E_get_size(h1, block) + WORD)

E_get_next_block(h, block) == block + ALIGNMENT + E_get_size(h, block)

E_get_previous_block(h, block) ==
    block - E_get_previous_size(h, block) - ALIGNMENT

E_block_from_payload(ptr) == ptr - ALIGNMENT

E_get_block_from_linked_node(ptr) == ptr - ALIGNMENT

E_get_linked_node_from_block(block) == block + ALIGNMENT

\* a faulty variant of delete_linked_node_from_block: only the next link of the
\* previous node is updated
E_delete_linked_node_forward_only(h, block) ==
    LET unlink == E_get_linked_node_from_block(block)
        forward(h1) == Store(h1, Load(h1, unlink) + WORD, Load(h1, unlink + WORD))
    IN forward(Touch(Touch(h, unlink), unlink + WORD))

E_delete_linked_node_from_block(h, block) ==
    LET unlink == E_get_linked_node_from_block(block)
        \* (unlink->next)->prev = unlink->prev
        backward(h2) == Store(h2, Load(h2, unlink + WORD), Load(h2, unlink))
        \* (unlink->prev)->next = unlink->next
        forward(h1) == Store(h1, Load(h1, unlink) + WORD, Load(h1, unlink + WORD))
    IN backward(forward(Touch(Touch(h, unlink), unlink + WORD)))

E_add_linked_node_to_block(h, block) ==
    LET link == E_get_linked_node_from_block(block)
        \* link->prev = last->prev
        set_prev(h0) == Store(h0, link, Load(h0, h.last))
        \* link->next = last
        set_next(h1) == Store(h1, link + WORD, h.last)
        \* last->prev = link
        set_last(h2) == Store(h2, h.last, link)
        \* (link->prev)->next = link
        set_before(h3) == Store(h3, Load(h3, link) + WORD, link)
    IN set_before(set_last(set_next(set_prev(Touch(h, h.last)))))

E_block_split(h, block, block_size, size) ==
    LET remainder(h1, next_block) ==
            E_add_linked_node_to_block(
                E_delete_linked_node_from_block(
                    E_set_header_footer(h1, next_block,
                                        block_size - size - ALIGNMENT, FALSE),
                    block),
                next_block)
        split(h1) == remainder(h1, E_get_next_block(h1, block))
    IN split(E_set_header_footer(h, block, size, TRUE))

\* a faulty variant of coalesce: a block whose previous block is free is merged into
\* it, a free next block is left alone
E_coalesce_left_only(h, block, size) ==
    IF h.fault # "none" THEN h
    ELSE IF ~E_is_previous_allocated(h, block)
    THEN E_delete_linked_node_from_block(
             E_set_header_footer(h, E_get_previous_block(h, block),
                                 size + E_get_previous_size(h, block) + ALIGNMENT,
                                 FALSE),
             block)
    ELSE h

E_coalesce(h, block, size) ==
    LET \* the next block, when it is free, joins the block at into, which
        \* has size size1 so far
        right(h3, into, size1) ==
            IF h3.fault # "none" THEN h3
            ELSE IF ~E_is_next_allocated(h3, block)
            THEN E_delete_linked_node_from_block(
                     E_set_header_footer(
                         h3, into,
                         size1 + E_get_size(h3, E_get_next_block(h3, block))
                               + ALIGNMENT,
                         FALSE),
                     E_get_next_block(h3, block))
            ELSE h3
        left_done(h3, size1) == right(h3, E_get_previous_block(h3, block), size1)
        \* the block joins the free block before it
        left(size1) ==
            left_done(
                E_next_header_read(
                    E_delete_linked_node_from_block(
                        E_set_header_footer(h, E_get_previous_block(h, block),
                                            size1, FALSE),
                        block),
                    block),
                size1)
    IN IF h.fault # "none" THEN h
       ELSE IF ~E_is_previous_allocated(h, block)
       THEN left(size + E_get_previous_size(h, block) + ALIGNMENT)
       ELSE right(E_next_header_read(h, block), block, size)

E_mm_init(h) ==
    LET tags(s4, prologue, epilogue_) ==
            IF prologue = SBRK_FAILED \/ epilogue_ = SBRK_FAILED
            THEN [s4 EXCEPT !.ret = 0]
            ELSE [Store(Store(s4, prologue, OrBit(0, TRUE)),
                        epilogue_, OrBit(0, TRUE))
                    EXCEPT !.epilogue = epilogue_, !.ret = 1]
        second(s4, prologue) == tags(s4, prologue, s4.ret)
        first_(s3) == second(mem_sbrk(s3, WORD), s3.ret)
        links(g1) ==
            IF g1.first = SBRK_FAILED \/ g1.last = SBRK_FAILED
            THEN [g1 EXCEPT !.ret = 0]
            ELSE first_(mem_sbrk(
                     Store(Store(Store(Store(g1, g1.first, NULL),
                                       g1.first + WORD, g1.last),
                                 g1.last, g1.first),
                           g1.last + WORD, NULL),
                     WORD))
        nodes(s2, f) == links([s2 EXCEPT !.first = f, !.last = s2.ret])
        sentinel(s1) == nodes(mem_sbrk(s1, ALIGNMENT), s1.ret)
    IN sentinel(mem_sbrk(h, ALIGNMENT))

RECURSIVE E_find_fit_loop(_, _, _, _)
E_find_fit_loop(h, free_node, size, fuel) ==
    IF free_node = h.first THEN [h EXCEPT !.ret = NULL]
    ELSE IF fuel = 0 THEN Crash(h, "hang")
    ELSE
      LET free_block == E_get_block_from_linked_node(free_node)
          take(h2, block_size) ==
              IF block_size < size + 2 * ALIGNMENT
              THEN [E_delete_linked_node_from_block(h2, free_block)
                       EXCEPT !.ret = free_block]
              ELSE [E_block_split(h2, free_block, block_size, size)
                       EXCEPT !.ret = free_block]
          advance(h2) ==
              IF h2.fault # "none" THEN h2
              ELSE E_find_fit_loop(h2, Load(h2, free_node), size, fuel - 1)
          look(h1, block_size) ==
              IF h1.fault # "none" THEN h1
              ELSE IF block_size >= size
              THEN take(E_set_header_footer(h1, free_block,
                                            E_get_size(h1, free_block), TRUE),
                        block_size)
              ELSE advance(Touch(h1, free_node))
          read(h1) == look(h1, E_get_size(h1, free_block))
      IN read(Meta(h, free_block + WORD))

E_find_fit(h, size) ==
    E_find_fit_loop(h, Load(h, h.last), size, MaxHeapWords + 1)

E_mm_malloc(h, n) ==
    LET size == round_up(n, ALIGNMENT)
        tags(w1, block, epilogue_) ==
            [E_set_header_footer(
                 [w1 EXCEPT !.epilogue = IF w1.fault = "none" THEN epilogue_
                                                              ELSE @],
                 block, size, TRUE)
               EXCEPT !.ret = block + ALIGNMENT]
        third(s3, block) == tags(Store(s3, s3.ret, OrBit(0, TRUE)), block, s3.ret)
        second(s2, block, new_footer) ==
            IF new_footer = SBRK_FAILED THEN [s2 EXCEPT !.ret = NULL]
            ELSE IF block = SBRK_FAILED THEN [s2 EXCEPT !.ret = NULL]
            ELSE third(mem_sbrk(s2, WORD), block)
        footer(s2, block_address) == second(s2, block_address, s2.ret)
        grow(s1) == footer(mem_sbrk(s1, WORD), s1.ret - ALIGNMENT)
        found(f) ==
            IF f.fault # "none" THEN f
            ELSE IF f.ret # NULL THEN [f EXCEPT !.ret = f.ret + ALIGNMENT]
            ELSE grow(mem_sbrk(f, size))
    IN found(E_find_fit(h, size))

E_mm_free(h, ptr) ==
    IF ptr = NULL \/ h.fault # "none" THEN h
    ELSE
      LET block == E_block_from_payload(ptr)
          merge(h3) ==
              IF h3.fault # "none" THEN h3
              ELSE IF ~E_is_previous_allocated(h3, block)
                      \/ ~E_is_next_allocated(h3, block)
                   THEN E_coalesce(h3, block, E_get_size(h3, block))
                   ELSE h3
          \* is_next_allocated is evaluated when the previous block is
          \* allocated
          test(h2) == IF E_is_previous_allocated(h2, block)
                      THEN merge(E_next_header_read(h2, block))
                      ELSE merge(h2)
          link(h1) == test(Touch(E_add_linked_node_to_block(h1, block), block))
          mark(h0) == link(E_set_header_footer(h0, block,
                                               E_get_size(h0, block), FALSE))
      IN mark(Touch(h, block + WORD))

\* the number of bytes mm_realloc copies
E_smaller_size(h, old_ptr, new_ptr) ==
    LET old_size == E_get_size(h, E_block_from_payload(old_ptr))
        new_size == E_get_size(h, E_block_from_payload(new_ptr))
    IN IF old_size > new_size THEN new_size ELSE old_size

\* a faulty variant of mm_realloc: mm_realloc(ptr, 0) returns NULL and
\* leaves the block allocated
E_mm_realloc_keeps(h, old_ptr, size) ==
    IF old_ptr = NULL THEN E_mm_malloc(h, size)
    ELSE [h EXCEPT !.ret = NULL]

E_mm_realloc(h, old_ptr, size) ==
    IF old_ptr = NULL THEN E_mm_malloc(h, size)
    ELSE IF size = 0 THEN [E_mm_free(h, old_ptr) EXCEPT !.ret = NULL]
    ELSE
      LET copy(m2, new_ptr) ==
              [E_mm_free(memcpy(m2, new_ptr, old_ptr,
                                E_smaller_size(m2, old_ptr, new_ptr), TRUE),
                         old_ptr)
                 EXCEPT !.ret = new_ptr, !.inner = new_ptr]
          sizes(m1, new_ptr) ==
              copy(Touch(m1, E_block_from_payload(new_ptr) + WORD), new_ptr)
          got(m) == sizes(Touch(m, E_block_from_payload(old_ptr) + WORD), m.ret)
      IN got(E_mm_malloc(h, size))

E_mm_calloc(h, nmemb, size) ==
    LET zero(m, ptr) == [memset0(m, ptr, nmemb * size)
                           EXCEPT !.ret = ptr, !.inner = ptr]
        got(m) == zero(m, m.ret)
    IN got(E_mm_malloc(h, nmemb * size))

----------------------------------------------------------------------------
(* The client and the public operations *)

Heap == [mem |-> mem, brk |-> brk,
         hfirst |-> mm_heap_first, hlast |-> mm_heap_last,
         first |-> first, last |-> last, epilogue |-> epilogue,
         fault |-> "none", gf |-> FALSE, ret |-> NULL, inner |-> NULL]

\* the allocator's globals and the arena after an operation
Commit(h, m) ==
    /\ mem' = m
    /\ brk' = h.brk
    /\ mm_heap_first' = h.hfirst
    /\ mm_heap_last' = h.hlast
    /\ first' = h.first
    /\ last' = h.last
    /\ epilogue' = h.epilogue
    /\ fault' = h.fault

NoOp == [name |-> "none", ptr |-> NULL, size |-> 0, ret |-> NULL,
         done |-> TRUE, gf |-> FALSE, inner |-> NULL,
         base |-> 0, span |-> 0, pair |-> 0, dup |-> FALSE]

\* the words of the arena that hold the first n bytes at ptr
WordsAt(ptr, n) ==
    IF ptr = NULL THEN {}
    ELSE {w \in 0..(MaxHeapWords - 1) :
             w >= Idx(ptr) /\ w < Idx(ptr) + WordsOf(n)}

\* the client writes its pattern into the n bytes it asked for
Fill(m, ptr, n) ==
    [w \in DOMAIN m |-> IF w \in WordsAt(ptr, n) THEN Pattern(w) ELSE m[w]]

\* what the client holds at ptr: the size it asked for and the contents
Held(m, ptr, n) ==
    [n |-> n,
     data |-> [i \in 1..WordsOf(n) |->
                  IF Idx(ptr) + i - 1 \in DOMAIN m THEN m[Idx(ptr) + i - 1]
                                                   ELSE Uninit]]

Without(f, p) == [q \in DOMAIN f \ {p} |-> f[q]]

With(f, p, v) == [q \in DOMAIN f \cup {p} |-> IF q = p THEN v ELSE f[q]]

\* the size of the block an allocation of n bytes needs, as find_fit is
\* given it
Rounded(n) ==
    IF strategy = "implicit" THEN round_up(WORD + n, ALIGNMENT)
                             ELSE round_up(n, ALIGNMENT)

\* the block of a payload pointer and the size stored in its header
BlockOf(ptr) ==
    IF strategy = "implicit" THEN I_block_from_payload(ptr)
                             ELSE E_block_from_payload(ptr)

SizeOf(ptr) ==
    IF strategy = "implicit" THEN I_get_size(Heap, BlockOf(ptr))
                             ELSE E_get_size(Heap, BlockOf(ptr))

\* bytes from the start of a block of stored size s to the next block
Stride(s) == IF strategy = "implicit" THEN s ELSE s + ALIGNMENT

\* the span two adjacent blocks of stored sizes s and t make when merged
Merged(s, t) == IF strategy = "implicit" THEN s + t ELSE s + t + ALIGNMENT

\* the client receives the result r of an allocating operation that was
\* asked for n bytes; kept are the blocks it still holds; fill: it writes
\* its pattern
Receive(name, ptr, n, r, kept, fill) ==
    LET got == r.fault = "none" /\ r.ret # NULL
        m == IF got /\ fill THEN Fill(r.mem, r.ret, n) ELSE r.mem
    IN /\ Commit(r, m)
       /\ live' = IF got THEN With(kept, r.ret, Held(m, r.ret, n))
                  ELSE IF r.fault = "none" THEN kept ELSE live
       /\ op' = [NoOp EXCEPT !.name = name, !.ptr = ptr, !.size = n,
                             !.ret = IF r.fault = "none" THEN r.ret ELSE NULL,
                             !.done = r.fault = "none", !.gf = r.gf,
                             !.inner = r.inner,
                             !.dup = got /\ r.ret \in DOMAIN live]

Ready(s) == strategy = s /\ inited /\ fault = "none"

Init ==
    /\ strategy \in {"implicit", "explicit"}
    /\ inited = FALSE
    /\ mem = [w \in 0..(MaxHeapWords - 1) |-> Uninit]
    /\ brk = 0
    /\ mm_heap_first = NULL
    /\ mm_heap_last = NULL
    /\ first = NULL
    /\ last = NULL
    /\ epilogue = NULL
    /\ live = [p \in {} |-> 0]
    /\ op = NoOp
    /\ nlayered = 0
    /\ fault = "none"

MmInit(r) ==
    /\ ~inited
    /\ fault = "none"
    /\ inited' = (r.ret = 1)
    /\ Commit(r, r.mem)
    /\ op' = [NoOp EXCEPT !.name = "init", !.ret = r.ret, !.gf = r.gf]
    /\ UNCHANGED <<strategy, live, nlayered>>

I_Init == strategy = "implicit" /\ MmInit(I_mm_init(Heap))

E_Init == strategy = "explicit" /\ MmInit(E_mm_init(Heap))

Malloc(n, r) ==
    /\ Receive("malloc", NULL, n, r, live, TRUE)
    /\ UNCHANGED <<strategy, inited, nlayered>>

I_Malloc(n) == Ready("implicit") /\ Malloc(n, I_mm_malloc(Heap, n))

E_Malloc(n) == Ready("explicit") /\ Malloc(n, E_mm_malloc(Heap, n))

Free(ptr, r) ==
    LET base == IF ptr = NULL THEN 0 ELSE BlockOf(ptr)
        span == IF ptr = NULL THEN 0 ELSE SizeOf(ptr)
        adjacent == /\ op.name = "free" /\ op.done /\ op.ptr # NULL
                    /\ ptr # NULL
                    /\ \/ op.base + Stride(op.span) = base
                       \/ base + Stride(span) = op.base
    IN /\ Commit(r, r.mem)
       /\ live' = Without(live, ptr)
       /\ op' = [NoOp EXCEPT !.name = "free", !.ptr = ptr,
                             !.size = IF ptr = NULL THEN 0 ELSE live[ptr].n,
                             !.done = r.fault = "none",
                             !.base = base, !.span = span,
                             !.pair = IF adjacent THEN Merged(op.span, span)
                                                  ELSE 0]
       /\ UNCHANGED <<strategy, inited, nlayered>>

I_Free(ptr) == Ready("implicit") /\ Free(ptr, I_mm_free(Heap, ptr))

E_Free(ptr) == Ready("explicit") /\ Free(ptr, E_mm_free(Heap, ptr))

Realloc(old_ptr, size, r) ==
    /\ nlayered < MaxLayered
    /\ nlayered' = nlayered + 1
    /\ IF old_ptr = NULL
       THEN Receive("realloc", old_ptr, size, r, live, TRUE)
       ELSE Receive("realloc", old_ptr, size, r, Without(live, old_ptr), FALSE)
    /\ UNCHANGED <<strategy, inited>>

I_Realloc(old_ptr, size, ub) ==
    Ready("implicit") /\ Realloc(old_ptr, size, I_mm_realloc(Heap, old_ptr, size, ub))

E_Realloc(old_ptr, size) ==
    Ready("explicit") /\ Realloc(old_ptr, size, E_mm_realloc(Heap, old_ptr, size))

Calloc(nmemb, size, r) ==
    /\ nlayered < MaxLayered
    /\ nlayered' = nlayered + 1
    /\ Receive("calloc", NULL, nmemb * size, r, live, FALSE)
    /\ UNCHANGED <<strategy, inited>>

I_Calloc(nmemb, size) ==
    Ready("implicit") /\ Calloc(nmemb, size, I_mm_calloc(Heap, nmemb, size))

E_Calloc(nmemb, size) ==
    Ready("explicit") /\ Calloc(nmemb, size, E_mm_calloc(Heap, nmemb, size))

Pointers == DOMAIN live \cup {NULL}

\* the outcomes of a read past the end of the arena: there are two when
\* the last block ends where the arena ends
PastEnd == IF brk = MaxHeap THEN BOOLEAN ELSE {TRUE}

Next ==
    \/ I_Init
    \/ E_Init
    \/ \E n \in ReqSizes : I_Malloc(n)
    \/ \E n \in ReqSizes : E_Malloc(n)
    \/ \E p \in Pointers : I_Free(p)
    \/ \E p \in Pointers : E_Free(p)
    \/ \E p \in Pointers, n \in ReqSizes, ub \in PastEnd : I_Realloc(p, n, ub)
    \/ \E p \in Pointers, n \in ReqSizes : E_Realloc(p, n)
    \/ \E c \in CallocCounts, s \in CallocSizes : I_Calloc(c, s)
    \/ \E c \in CallocCounts, s \in CallocSizes : E_Calloc(c, s)

Spec == Init /\ [][Next]_vars

\* the model never reads client data or unwritten memory as metadata and
\* never runs out of loop fuel
ModelSound == fault \in {"none", "segv"}

----------------------------------------------------------------------------
(* The block sequence of the heap, read from the arena *)

\* implicit: the blocks from b to the high-water mark, each block's size
\* field being its stride
RECURSIVE I_walk(_, _)
I_walk(b, fuel) ==
    IF fuel = 0 \/ ~AddrOK(b) \/ b >= HeapBase + brk THEN <<>>
    ELSE LET s == I_get_size(Heap, b)
             blk == [addr |-> b, size |-> s, free |-> ~I_is_allocated(Heap, b)]
         IN IF s <= 0 THEN <<blk>>
            ELSE <<blk>> \o I_walk(b + s, fuel - 1)

\* explicit: the blocks from b to the epilogue, the stride being the
\* payload size plus one footer and one header
RECURSIVE E_walk(_, _)
E_walk(b, fuel) ==
    IF fuel = 0 \/ ~AddrOK(b) \/ b + WORD >= epilogue THEN <<>>
    ELSE LET s == E_get_size(Heap, b)
             blk == [addr |-> b, size |-> s,
                     free |-> ~LowBit(Load(Heap, b + WORD))]
         IN IF s < 0 THEN <<blk>>
            ELSE <<blk>> \o E_walk(E_get_next_block(Heap, b), fuel - 1)

HeapBlocks ==
    IF ~inited THEN <<>>
    ELSE IF strategy = "implicit" THEN I_walk(mm_heap_first, MaxHeapWords)
    ELSE E_walk(last + ALIGNMENT, MaxHeapWords)

\* the arena words inside free blocks: the whole block in the implicit
\* allocator, the payload in the explicit one
FreeWords ==
    LET blocks == HeapBlocks
        from(b) == IF strategy = "implicit" THEN b.addr ELSE b.addr + ALIGNMENT
    IN {w \in 0..(MaxHeapWords - 1) :
          \E i \in DOMAIN blocks :
             /\ blocks[i].free
             /\ w >= Idx(from(blocks[i]))
             /\ w < Idx(from(blocks[i]) + blocks[i].size)}

----------------------------------------------------------------------------
(* Claims *)

\* C1: the payload regions of the blocks the client holds are pairwise
\* disjoint, and no pointer is handed out while the client still holds it.
C1_NoOverlap ==
    /\ ~op.dup
    /\ \A p \in DOMAIN live : \A q \in DOMAIN live :
          p # q => WordsAt(p, live[p].n) \cap WordsAt(q, live[q].n) = {}

\* C1 witness: an allocation served from reused memory below a block the
\* client still holds, both of non-zero size.
C1_Witness ==
    /\ op.name = "malloc" /\ op.ret # NULL /\ op.size > 0
    /\ \E q \in DOMAIN live : q > op.ret /\ live[q].n > 0
    /\ \E q \in DOMAIN live : q < op.ret /\ live[q].n > 0

\* C2: when a mem_sbrk call fails during mm_malloc, mm_malloc returns NULL
\* and the process does not write through the failed result.
C2_GrowthFailureReturnsNull ==
    (op.name = "malloc" /\ op.gf) => (op.done /\ op.ret = NULL)

\* C3: an mm_malloc that returns NULL leaves the heap as it was: the
\* high-water mark, the epilogue and the arena are unchanged (in the
\* implicit allocator, up to the coalescing sweep every mm_malloc starts
\* with).
C3_FailedMallocLeavesHeap ==
    [][(op'.name = "malloc" /\ op'.done /\ op'.ret = NULL) =>
          /\ brk' = brk
          /\ epilogue' = epilogue
          /\ live' = live
          /\ mem' = IF strategy = "implicit" THEN I_coalesce(Heap).mem ELSE mem
      ]_vars

\* C4: when the allocation inside mm_realloc(ptr, size), ptr # NULL and
\* size # 0, fails, mm_realloc returns NULL without reading or writing
\* through the null result, and the client still holds the original block.
C4_FailedReallocKeepsBlock ==
    (op.name = "realloc" /\ op.ptr # NULL /\ op.size # 0 /\ op.inner = NULL)
        => (op.done /\ op.ret = NULL /\ op.ptr \in DOMAIN live)

\* C5: when the allocation inside mm_calloc fails, mm_calloc returns NULL
\* without writing through the null result.
C5_FailedCallocReturnsNull ==
    (op.name = "calloc" /\ op.inner = NULL) => (op.done /\ op.ret = NULL)

\* C6: every block the client holds still has the contents the client gave
\* it (or received it with), whatever the allocator did since, also at the
\* point where the process ends.
C6_ByteFidelity ==
    \A p \in DOMAIN live : \A i \in 1..WordsOf(live[p].n) :
        /\ Idx(p) + i - 1 \in DOMAIN mem
        /\ mem[Idx(p) + i - 1] = live[p].data[i]

\* C6 witness: the client holds a block with its pattern while a block
\* next to it was freed and memory was allocated again.
C6_Witness ==
    /\ op.name = "malloc" /\ op.ret # NULL /\ op.size > 0
    /\ FreeWords # {}
    /\ \E q \in DOMAIN live : q # op.ret /\ live[q].n > 0

\* C7: every pointer returned by mm_malloc, mm_realloc and mm_calloc, and
\* so every pointer the client holds, is a multiple of ALIGNMENT.
C7_Aligned ==
    /\ op.ret # NULL /\ op.name # "init" => op.ret % ALIGNMENT = 0
    /\ \A p \in DOMAIN live : p % ALIGNMENT = 0

\* C7 witness: mm_realloc moved a block to a new address.
C7_Witness ==
    /\ op.name = "realloc" /\ op.ptr # NULL /\ op.ret # NULL
    /\ op.ret # op.ptr

\* C8: explicit allocator: after a public operation has returned, no two
\* address-adjacent blocks are both free.
C8_NoAdjacentFree ==
    (strategy = "explicit" /\ fault = "none") =>
        \A i \in 1..(Len(HeapBlocks) - 1) :
            ~(HeapBlocks[i].free /\ HeapBlocks[i + 1].free)

\* C8 witness: mm_free has returned after freeing a block next to the
\* block freed just before, in the explicit allocator.
C8_Witness ==
    /\ strategy = "explicit" /\ fault = "none"
    /\ op.name = "free" /\ op.pair > 0

\* C9: after two address-adjacent blocks were freed one after the other,
\* an mm_malloc whose rounded size is at most their combined span succeeds
\* without growing the arena.
C9_CoalescingClosesGaps ==
    [][(/\ op.name = "free" /\ op.done /\ op.pair > 0
        /\ op'.name = "malloc" /\ Rounded(op'.size) <= op.pair) =>
          (op'.done /\ op'.ret # NULL /\ brk' = brk)
      ]_vars

\* C10: when a block obtained for n bytes is freed and the next operation
\* is mm_malloc(m) with the rounded size of m at most that of n, the
\* mm_malloc succeeds without growing the arena and returns memory that
\* was free; when the freed block is the only block the heap ever had and
\* m = n, it returns the same address.
C10_FreeReuse ==
    [][(/\ op.name = "free" /\ op.done /\ op.ptr # NULL
        /\ op'.name = "malloc" /\ Rounded(op'.size) <= Rounded(op.size)) =>
          /\ op'.done /\ op'.ret # NULL /\ brk' = brk
          /\ WordsAt(op'.ret, op'.size) \subseteq FreeWords
          /\ (/\ Len(HeapBlocks) = 1 /\ HeapBlocks[1].addr = op.base
              /\ op'.size = op.size) => op'.ret = op.ptr
      ]_vars

Min(a, b) == IF a < b THEN a ELSE b

\* C11: an mm_realloc(ptr, size) with ptr non-null, size non-zero and a
\* successful inner mm_malloc returns a region whose first
\* min(old requested size, size) bytes are the bytes the old payload held
\* when the call was made, and the old payload lies in a free block
\* afterwards.
C11_ReallocPreserves ==
    [][(op'.name = "realloc" /\ op'.ptr # NULL /\ op'.size # 0
           /\ op'.inner # NULL /\ ~op'.gf) =>
          /\ op'.done
          /\ op'.ret \in DOMAIN live'
          /\ \A i \in 1..WordsOf(Min(live[op'.ptr].n, op'.size)) :
                live'[op'.ret].data[i] = live[op'.ptr].data[i]
          /\ WordsAt(op'.ptr, live[op'.ptr].n) \subseteq FreeWords'
      ]_vars

\* the step leaves the allocator, the arena and the client's blocks as
\* mm_malloc(n) would from the state before it, and returns its result
AsMalloc(n) ==
    LET r == IF strategy = "implicit" THEN I_mm_malloc(Heap, n)
                                      ELSE E_mm_malloc(Heap, n)
        got == r.fault = "none" /\ r.ret # NULL
        m == IF got THEN Fill(r.mem, r.ret, n) ELSE r.mem
    IN /\ Commit(r, m)
       /\ live' = IF got THEN With(live, r.ret, Held(m, r.ret, n)) ELSE live
       /\ op'.ret = IF r.fault = "none" THEN r.ret ELSE NULL

\* the step leaves the allocator, the arena and the client's blocks as
\* mm_free(ptr) would from the state before it
AsFree(ptr) ==
    LET r == IF strategy = "implicit" THEN I_mm_free(Heap, ptr)
                                      ELSE E_mm_free(Heap, ptr)
    IN /\ Commit(r, r.mem)
       /\ live' = IF r.fault = "none" THEN Without(live, ptr) ELSE live

\* C12: mm_realloc(NULL, n) leaves the heap in the state mm_malloc(n) would
\* leave it in and returns the same pointer; mm_realloc(ptr, 0) with ptr
\* non-null leaves the heap in the state mm_free(ptr) would leave it in and
\* returns NULL.
C12_ReallocDelegates ==
    [][(op'.name = "realloc" /\ (op'.ptr = NULL \/ op'.size = 0)) =>
          IF op'.ptr = NULL THEN AsMalloc(op'.size)
          ELSE AsFree(op'.ptr) /\ op'.ret = NULL
      ]_vars

\* C12 witness: mm_realloc(ptr, 0) has returned and the payload of ptr lies
\* in a free block.
C12_Witness ==
    /\ op.name = "realloc" /\ op.ptr # NULL /\ op.size = 0 /\ op.done
    /\ Idx(op.ptr) \in FreeWords

\* implicit: the blocks of heap h from b to its high-water mark
RECURSIVE I_blocks(_, _, _)
I_blocks(h, b, fuel) ==
    IF fuel = 0 \/ ~AddrOK(b) \/ b >= HeapBase + h.brk THEN <<>>
    ELSE LET s == I_get_size(h, b)
             blk == [addr |-> b, size |-> s, free |-> ~I_is_allocated(h, b)]
         IN IF s <= 0 THEN <<blk>>
            ELSE <<blk>> \o I_blocks(h, b + s, fuel - 1)

\* the blocks of the implicit heap when the sweep of the next mm_malloc
\* has returned
Swept == I_blocks(I_coalesce(Heap), mm_heap_first, MaxHeapWords)

\* C13: implicit allocator: when coalesce() returns, no two blocks next to
\* each other between the first block and the end of the arena are both
\* free, whatever state the calls made so far have left.
C13_SweepRestores ==
    (strategy = "implicit" /\ inited /\ fault = "none") =>
        /\ I_coalesce(Heap).fault = "none"
        /\ \A i \in 1..(Len(Swept) - 1) : ~(Swept[i].free /\ Swept[i + 1].free)

\* the free blocks of the swept implicit heap that hold a block of size need
Fits(need) == {i \in DOMAIN Swept : Swept[i].free /\ Swept[i].size >= need}

\* C14: implicit allocator: when, after the sweep, some free block between
\* the first block and the end of the arena is at least as large as the
\* rounded requirement, mm_malloc returns the lowest-addressed such block
\* and does not grow the arena.
C14_FirstFit ==
    [][(strategy = "implicit" /\ op'.name = "malloc"
           /\ I_coalesce(Heap).fault = "none"
           /\ Fits(Rounded(op'.size)) # {}) =>
          /\ op'.done
          /\ brk' = brk
          /\ \E i \in Fits(Rounded(op'.size)) :
                /\ \A j \in Fits(Rounded(op'.size)) : i <= j
                /\ op'.ret = Swept[i].addr + WORD
      ]_vars

----------------------------------------------------------------------------
(* The free list of the explicit allocator, read from the arena *)

\* the nodes from node to the last sentinel, following next
RECURSIVE E_list(_, _)
E_list(node, fuel) ==
    IF fuel = 0 \/ node = last \/ ~AddrOK(node) \/ ~AddrOK(node + WORD)
    THEN <<>>
    ELSE <<node>> \o E_list(Load(Heap, node + WORD), fuel - 1)

\* the nodes between the two sentinels, in next order
FreeList ==
    IF strategy = "explicit" /\ inited
    THEN E_list(Load(Heap, first + WORD), MaxHeapWords)
    ELSE <<>>

\* how often node occurs in list
Occurrences(list, node) == Cardinality({k \in DOMAIN list : list[k] = node})

\* the place in the block sequence of the block with payload ptr, 0 when
\* it has none
Place(ptr) ==
    IF \E i \in DOMAIN HeapBlocks : HeapBlocks[i].addr = E_block_from_payload(ptr)
    THEN CHOOSE i \in DOMAIN HeapBlocks :
             HeapBlocks[i].addr = E_block_from_payload(ptr)
    ELSE 0

\* the block with payload ptr lies between two free blocks
Sandwiched(ptr) ==
    /\ Place(ptr) > 1 /\ Place(ptr) < Len(HeapBlocks)
    /\ HeapBlocks[Place(ptr) - 1].free
    /\ HeapBlocks[Place(ptr) + 1].free

\* C15: explicit allocator: mm_free of a block whose previous and next
\* blocks are both free leaves one free block in place of the three: it
\* starts where the previous block started, its payload size is the sum of
\* the three payload sizes plus two times ALIGNMENT, its footer equals its
\* header, the nodes of the freed block and of the next block are not in
\* the free list and the node of the previous block is in it once.
C15_ThreeWayMerge ==
    [][(strategy = "explicit" /\ op'.name = "free" /\ op'.ptr # NULL
           /\ Sandwiched(op'.ptr)) =>
          LET i == Place(op'.ptr)
              prev == HeapBlocks[i - 1]
              total == prev.size + HeapBlocks[i].size + HeapBlocks[i + 1].size
                          + 2 * ALIGNMENT
          IN /\ op'.done
             /\ Len(HeapBlocks') = Len(HeapBlocks) - 2
             /\ (HeapBlocks')[i - 1] =
                   [addr |-> prev.addr, size |-> total, free |-> TRUE]
             /\ mem'[Idx(prev.addr + ALIGNMENT + total)] =
                   mem'[Idx(prev.addr + WORD)]
             /\ Occurrences(FreeList', op'.ptr) = 0
             /\ Occurrences(FreeList', HeapBlocks[i + 1].addr + ALIGNMENT) = 0
             /\ Occurrences(FreeList', prev.addr + ALIGNMENT) = 1
      ]_vars

\* C15 witness: mm_free has returned and the freed block lies inside a
\* free block that starts before it and ends after it.
C15_Witness ==
    /\ strategy = "explicit" /\ op.name = "free" /\ op.done /\ op.ptr # NULL
    /\ \E i \in DOMAIN HeapBlocks :
          /\ HeapBlocks[i].free
          /\ HeapBlocks[i].addr < op.base
          /\ HeapBlocks[i].addr + HeapBlocks[i].size > op.base + op.span

\* the nodes of the blocks of the heap that are marked free
FreeNodes ==
    {HeapBlocks[i].addr + ALIGNMENT : i \in {j \in DOMAIN HeapBlocks : HeapBlocks[j].free}}

\* n->next and n->prev
NextOf(n) == Load(Heap, n + WORD)
PrevOf(n) == Load(Heap, n)

\* C16: explicit allocator: after every public operation that has returned,
\* following next from the first sentinel reaches the last sentinel, the
\* nodes passed are exactly the nodes of the blocks marked free, each
\* once, and n->next->prev = n and n->prev->next = n for every node n of
\* the list.
C16_FreeListIntegrity ==
    (strategy = "explicit" /\ inited /\ fault = "none") =>
        /\ NextOf(IF FreeList = <<>> THEN first ELSE FreeList[Len(FreeList)]) = last
        /\ {FreeList[k] : k \in DOMAIN FreeList} = FreeNodes
        /\ Cardinality(FreeNodes) = Len(FreeList)
        /\ PrevOf(NextOf(first)) = first
        /\ NextOf(PrevOf(last)) = last
        /\ \A k \in DOMAIN FreeList :
              /\ PrevOf(NextOf(FreeList[k])) = FreeList[k]
              /\ NextOf(PrevOf(FreeList[k])) = FreeList[k]

\* C16 witness: an mm_malloc has split a free block and the remainder is in
\* the free list, while the client holds another block.
C16_Witness ==
    /\ strategy = "explicit" /\ fault = "none"
    /\ op.name = "malloc" /\ op.ret # NULL
    /\ Cardinality(DOMAIN live) >= 2
    /\ \E k \in DOMAIN FreeList :
          FreeList[k] = op.ret + Rounded(op.size) + ALIGNMENT

\* the address right after the last block of the block sequence
WalkEnd ==
    IF HeapBlocks = <<>>
    THEN IF strategy = "implicit" THEN HeapBase + brk ELSE last + ALIGNMENT
    ELSE HeapBlocks[Len(HeapBlocks)].addr
            + Stride(HeapBlocks[Len(HeapBlocks)].size)

\* C17: after every public operation that has returned, the walk from the
\* first block by strides stays below the high-water mark and ends exactly
\* at the end of the arena: in the implicit allocator at the high-water
\* mark, in the explicit allocator at the epilogue, a zero-size allocated
\* header in the last word of the arena; in the explicit allocator every
\* block's header equals the footer kept in the block after it.
C17_HeapTiling ==
    (inited /\ fault = "none") =>
        /\ \A i \in DOMAIN HeapBlocks :
              /\ HeapBlocks[i].size >= 0
              /\ HeapBlocks[i].addr + Stride(HeapBlocks[i].size)
                    <= HeapBase + brk
        /\ strategy = "implicit" =>
              /\ WalkEnd = HeapBase + brk
              /\ \A i \in DOMAIN HeapBlocks : HeapBlocks[i].size > 0
        /\ strategy = "explicit" =>
              /\ WalkEnd + WORD = epilogue
              /\ epilogue + WORD = HeapBase + brk
              /\ Load(Heap, epilogue) = OrBit(0, TRUE)
              /\ \A i \in DOMAIN HeapBlocks :
                    Load(Heap, HeapBlocks[i].addr + WORD) =
                    Load(Heap, HeapBlocks[i].addr + ALIGNMENT + HeapBlocks[i].size)

\* the places in the block sequence of the free blocks that hold the
\* memory of the block freed by the last operation
Recent ==
    {i \in DOMAIN HeapBlocks :
        /\ HeapBlocks[i].free
        /\ HeapBlocks[i].addr <= op.base
        /\ op.base < HeapBlocks[i].addr + Stride(HeapBlocks[i].size)}

\* C18: explicit allocator: an mm_malloc that follows an mm_free and is
\* served from the free list returns the free block that holds the memory
\* freed last whenever that block is large enough for the rounded request,
\* also when the freed block was merged into the block before it.
C18_LifoFirstFit ==
    [][(strategy = "explicit"
           /\ op.name = "free" /\ op.done /\ op.ptr # NULL
           /\ op'.name = "malloc" /\ op'.done /\ op'.ret # NULL /\ brk' = brk
           /\ \E i \in Recent : HeapBlocks[i].size >= Rounded(op'.size)) =>
          \E i \in Recent : op'.ret = HeapBlocks[i].addr + ALIGNMENT
      ]_vars

\* C19: explicit allocator: every block of the heap has a payload of at
\* least the size of a free-list node, two pointers, so that the links
\* written by mm_free and the tags written by block_split stay inside the
\* block they belong to, for every request size, mm_malloc(0) included.
C19_MinimumPayload ==
    (strategy = "explicit" /\ inited /\ fault = "none") =>
        \A i \in DOMAIN HeapBlocks : HeapBlocks[i].size >= 2 * WORD

\* the inner mm_malloc of an mm_realloc(ptr, size) made in this state
Inner(size) == IF strategy = "implicit" THEN I_mm_malloc(Heap, size)
                                        ELSE E_mm_malloc(Heap, size)

\* the number of bytes mm_realloc(old_ptr, size) copies after the inner
\* mm_malloc has left heap m
Copied(m, old_ptr, size) ==
    IF strategy = "implicit" THEN I_smaller_size(m, old_ptr, size)
                             ELSE E_smaller_size(m, old_ptr, m.ret)

\* the payload size of the block of ptr in heap m: in the implicit
\* allocator the stored size less the header
Payload(m, ptr) ==
    IF strategy = "implicit"
    THEN I_get_size(m, I_block_from_payload(ptr)) - WORD
    ELSE E_get_size(m, E_block_from_payload(ptr))

\* C20: the copy of an mm_realloc(ptr, size) with ptr non-null, size
\* non-zero and a successful inner mm_malloc transfers no more bytes than
\* the old block's payload holds and no more than the new block's payload
\* holds.
C20_CopyWithinPayloads ==
    [][(op'.name = "realloc" /\ op'.ptr # NULL /\ op'.size # 0
           /\ Inner(op'.size).fault = "none" /\ Inner(op'.size).ret # NULL) =>
          /\ Copied(Inner(op'.size), op'.ptr, op'.size)
                <= Payload(Inner(op'.size), op'.ptr)
          /\ Copied(Inner(op'.size), op'.ptr, op'.size)
                <= Payload(Inner(op'.size), Inner(op'.size).ret)
      ]_vars

====
